---- MODULE Spec2Model ----
(***************************************************************************)
(* The call session bridge of src/main.py: handle_media_stream and its two *)
(* coroutines receive_from_twilio (inbound pump, telephony -> AI) and      *)
(* send_to_twilio (outbound pump, AI -> telephony), run by asyncio.gather. *)
(* The two coroutines share the closure variables of handle_media_stream   *)
(* and interleave at their await points: every await inside a handler is a *)
(* position of the coroutine (pcIn, pcOut).                                *)
(***************************************************************************)
EXTENDS Integers, Sequences, FiniteSets, TLC

\* ---------------------------------------------------------------- bounds
\* Number of events the two pumps receive in one run (both legs together).
MaxEvents == 5
\* Media timestamps are drawn from 0..MaxTs.
MaxTs == 1

\* ------------------------------------------------------------ value sets
\* Python's None for the string-valued fields (stream_sid, item ids).
None == "None"
\* Python's None for response_start_timestamp_twilio (timestamps are >= 0).
NoTs == -1

StreamIds == {"A1", "B2"}
ItemIds == {"r1", "r2"}
Timestamps == 0..MaxTs

VARIABLES
    stream_sid,                       \* main.py:108
    latest_media_timestamp,           \* main.py:109
    last_assistant_item,              \* main.py:110
    mark_queue,                       \* main.py:111
    response_start_timestamp_twilio,  \* main.py:112
    openai_open,       \* openai_ws.open
    twilio_open,       \* the telephony websocket is connected
    pcIn,              \* position of receive_from_twilio
    pcOut,             \* position of send_to_twilio
    pcMain,            \* position of handle_media_stream
    data,              \* the telephony event being handled (main.py:119)
    oa,                \* the AI event being handled (main.py:151)
    toAI,              \* messages sent on openai_ws, in order
    toTwilio,          \* frames sent on the telephony websocket, in order
    nIn,               \* telephony events received so far
    nOut,              \* AI events received so far
    resp_item,         \* history: item id of the response now streaming
    resp_first_ts,     \* history: latest_media_timestamp at its first delta
    n_delta,           \* history: audio-deltas handled since the last reset
    n_ack              \* history: mark acks handled since the last reset

progVars == <<stream_sid, latest_media_timestamp, last_assistant_item,
              mark_queue, response_start_timestamp_twilio>>
histVars == <<resp_item, resp_first_ts, n_delta, n_ack>>
vars == <<stream_sid, latest_media_timestamp, last_assistant_item, mark_queue,
          response_start_timestamp_twilio, openai_open, twilio_open, pcIn,
          pcOut, pcMain, data, oa, toAI, toTwilio, nIn, nOut, resp_item,
          resp_first_ts, n_delta, n_ack>>

\* --------------------------------------------------------------- messages
\* A message on the AI channel (json.dumps of main.py:132, 195, 235, 249, 260).
AIMsg(type, item, audio, end_ms) ==
    [type |-> type, item_id |-> item, audio |-> audio, audio_end_ms |-> end_ms]

\* A frame on the telephony leg (send_json of main.py:159, 206, 216).
TwilioFrame(event, sid, payload) ==
    [event |-> event, streamSid |-> sid, payload |-> payload]

\* A telephony event as parsed at main.py:119-120.
TwilioEvent(event, sid, ts, payload) ==
    [event |-> event, streamSid |-> sid, timestamp |-> ts, payload |-> payload]

\* An AI event as parsed at main.py:151-152.
OaEvent(type, item, delta) == [type |-> type, item_id |-> item, delta |-> delta]

\* The sends of initialize_session and send_initial_conversation_item, made
\* before the pumps start (main.py:104-105).
InitialMessages ==
    << AIMsg("session.create", None, 0, 0),
       AIMsg("conversation.item.create", None, 0, 0),
       AIMsg("response.create", None, 0, 0) >>

Init ==
    /\ stream_sid = None
    /\ latest_media_timestamp = 0
    /\ last_assistant_item = None
    /\ mark_queue = << >>
    /\ response_start_timestamp_twilio = NoTs
    /\ openai_open = TRUE
    /\ twilio_open = TRUE
    /\ pcIn = "recv"
    /\ pcOut = "recv"
    /\ pcMain = "gather"
    /\ data = TwilioEvent("none", None, 0, 0)
    /\ oa = OaEvent("none", None, 0)
    /\ toAI = InitialMessages
    /\ toTwilio = << >>
    /\ nIn = 0
    /\ nOut = 0
    /\ resp_item = None
    /\ resp_first_ts = NoTs
    /\ n_delta = 0
    /\ n_ack = 0

\* The inbound pump is blocked in websocket.iter_text() (main.py:118).
InCanReceive ==
    /\ pcIn = "recv"
    /\ twilio_open
    /\ nIn + nOut < MaxEvents

\* An outbound pump that takes the next AI event while the handler of the
\* previous one is still suspended in a send.
OutCanReceive_Concurrent ==
    /\ openai_open
    /\ nIn + nOut < MaxEvents

\* The outbound pump is blocked in `async for oa_raw in openai_ws` (main.py:150).
OutCanReceive ==
    /\ pcOut = "recv"
    /\ openai_open
    /\ nIn + nOut < MaxEvents

\* ------------------------------------------------- receive_from_twilio
\* `event == "start"` (main.py:122-127): stream_sid is overwritten and the
\* turn-taking state is reset; mark_queue is left as it is.
InStart(s) ==
    /\ InCanReceive
    /\ data' = TwilioEvent("start", s, 0, 0)
    /\ nIn' = nIn + 1
    /\ stream_sid' = s
    /\ latest_media_timestamp' = 0
    /\ last_assistant_item' = None
    /\ response_start_timestamp_twilio' = NoTs
    /\ resp_item' = None
    /\ resp_first_ts' = NoTs
    /\ UNCHANGED <<mark_queue, openai_open, twilio_open, pcIn, pcOut, pcMain,
                   oa, toAI, toTwilio, nOut, n_delta, n_ack>>

\* A media branch that does not test openai_ws.open.
MediaGuard_Always == TRUE

\* The guard of the media branch (main.py:129).
MediaGuard == openai_open

\* The append message built at main.py:132-135: the payload as received.
AppendMessage(payload) == AIMsg("input_audio_buffer.append", None, payload, 0)

\* A media branch that also issues the greeting trigger.
MediaSends_WithGreeting(payload) ==
    << AppendMessage(payload), AIMsg("response.create", None, 0, 0) >>

\* What the media branch sends on openai_ws (main.py:131-136): the append
\* message and nothing else.
MediaSends(payload) == << AppendMessage(payload) >>

\* `event == "media" and openai_ws.open` (main.py:129-136). The k-th event of
\* the leg carries chunk number k as its payload.
InMedia(t) ==
    /\ InCanReceive
    /\ data' = TwilioEvent("media", None, t, nIn + 1)
    /\ nIn' = nIn + 1
    /\ IF MediaGuard
          THEN /\ latest_media_timestamp' = t
               /\ toAI' = toAI \o MediaSends(nIn + 1)
          ELSE UNCHANGED <<latest_media_timestamp, toAI>>
    /\ UNCHANGED <<stream_sid, last_assistant_item, mark_queue,
                   response_start_timestamp_twilio, openai_open, twilio_open,
                   pcIn, pcOut, pcMain, oa, toTwilio, nOut, histVars>>

\* The guard of the mark branch (main.py:138).
MarkGuard == mark_queue # << >>

\* `event == "mark" and mark_queue` (main.py:138-140): mark_queue.pop(0).
InMark ==
    /\ InCanReceive
    /\ data' = TwilioEvent("mark", None, 0, 0)
    /\ nIn' = nIn + 1
    /\ n_ack' = n_ack + 1
    /\ IF MarkGuard
          THEN mark_queue' = Tail(mark_queue)
          ELSE UNCHANGED mark_queue
    /\ UNCHANGED <<stream_sid, latest_media_timestamp, last_assistant_item,
                   response_start_timestamp_twilio, openai_open, twilio_open,
                   pcIn, pcOut, pcMain, oa, toAI, toTwilio, nOut, resp_item,
                   resp_first_ts, n_delta>>

\* `event == "stop"`: no branch of main.py:122-140 matches, the loop goes on.
InStop ==
    /\ InCanReceive
    /\ data' = TwilioEvent("stop", None, 0, 0)
    /\ nIn' = nIn + 1
    /\ UNCHANGED <<progVars, openai_open, twilio_open, pcIn, pcOut, pcMain, oa,
                   toAI, toTwilio, nOut, histVars>>

\* Where the inbound pump is after json.loads raised (main.py:119): the only
\* handler is `except WebSocketDisconnect` (main.py:142), so the exception
\* leaves the coroutine.
InAfterBadJson == "raised"

\* An unparseable text frame: json.loads(message) raises (main.py:119).
InMalformed ==
    /\ InCanReceive
    /\ data' = TwilioEvent("malformed", None, 0, 0)
    /\ nIn' = nIn + 1
    /\ pcIn' = InAfterBadJson
    /\ UNCHANGED <<progVars, openai_open, twilio_open, pcOut, pcMain, oa, toAI,
                   toTwilio, nOut, histVars>>

\* The telephony leg is gone and iter_text() ends the loop without raising
\* (main.py:118): the coroutine returns, openai_ws is left open.
InDisconnectEnd ==
    /\ pcIn = "recv"
    /\ ~twilio_open
    /\ pcIn' = "done"
    /\ UNCHANGED <<progVars, openai_open, twilio_open, pcOut, pcMain, data, oa,
                   toAI, toTwilio, nIn, nOut, histVars>>

\* The telephony leg is gone and WebSocketDisconnect reaches the handler
\* (main.py:142-145): openai_ws is closed if it is open.
InDisconnectRaised ==
    /\ pcIn = "recv"
    /\ ~twilio_open
    /\ pcIn' = "done"
    /\ openai_open' = FALSE
    /\ UNCHANGED <<progVars, twilio_open, pcOut, pcMain, data, oa, toAI,
                   toTwilio, nIn, nOut, histVars>>

receive_from_twilio ==
    \/ \E s \in StreamIds : InStart(s)
    \/ \E t \in Timestamps : InMedia(t)
    \/ InMark
    \/ InStop
    \/ InMalformed
    \/ InDisconnectEnd
    \/ InDisconnectRaised

\* ------------------------------------------------------- send_to_twilio
\* The audio transcoder of the specification (4.1), which src/main.py does
\* not have: a chunk and its transcoding are never the same buffer, and the
\* two directions differ. Chunks are numbers; the codes are kept apart from
\* the chunk numbers of a run.
encode_for_ai(chunk) == chunk + 100
encode_for_telephony(chunk) == chunk + 200

\* A media frame carrying the transcoded delta.
MediaFrame_Transcoded(payload) ==
    TwilioFrame("media", stream_sid, encode_for_telephony(payload))

\* The media frame of main.py:159-165: the delta as received, tagged with
\* the current stream_sid.
MediaFrame(payload) == TwilioFrame("media", stream_sid, payload)

\* `oa_type == "response.audio.delta" and "delta" in oa` up to the first
\* await (main.py:154-165). The k-th event of the AI channel carries chunk
\* number k as its delta. A send on a disconnected telephony socket raises,
\* and `except Exception` (main.py:183) ends the pump.
OutDelta(i) ==
    /\ OutCanReceive
    /\ oa' = OaEvent("response.audio.delta", i, nOut + 1)
    /\ nOut' = nOut + 1
    /\ IF twilio_open
          THEN /\ toTwilio' = Append(toTwilio, MediaFrame(nOut + 1))
               /\ pcOut' = "delta_sent"
          ELSE /\ pcOut' = "done"
               /\ UNCHANGED toTwilio
    /\ UNCHANGED <<progVars, openai_open, twilio_open, pcIn, pcMain, data,
                   toAI, nIn, histVars>>

\* A send_mark that does not test sid.
SendMarkGuard_Always(sid) == TRUE

\* The guard of send_mark (main.py:214).
SendMarkGuard(sid) == sid # None

\* The mark frame of main.py:216-222.
MarkFrame(sid) == TwilioFrame("mark", sid, 0)

\* main.py:166-172: the response start is captured once, the item id is
\* recorded when the event carries one.
CaptureResponseStart ==
    /\ response_start_timestamp_twilio' =
          IF response_start_timestamp_twilio = NoTs
             THEN latest_media_timestamp
             ELSE response_start_timestamp_twilio
    /\ last_assistant_item' =
          IF oa.item_id # None THEN oa.item_id ELSE last_assistant_item

\* History: the delta being handled is the first of its response when no
\* response is streaming, or when it names another item than the one streaming.
TrackResponse ==
    IF resp_first_ts = NoTs \/ (oa.item_id # None /\ oa.item_id # resp_item)
       THEN /\ resp_item' = oa.item_id
            /\ resp_first_ts' = latest_media_timestamp
       ELSE UNCHANGED <<resp_item, resp_first_ts>>

\* After the media frame was sent (main.py:166-175 and send_mark up to its
\* await, main.py:213-222).
OutDeltaResume ==
    /\ pcOut = "delta_sent"
    /\ CaptureResponseStart
    /\ TrackResponse
    /\ IF SendMarkGuard(stream_sid)
          THEN IF twilio_open
                  THEN /\ toTwilio' = Append(toTwilio, MarkFrame(stream_sid))
                       /\ pcOut' = "mark_sent"
                       /\ UNCHANGED n_delta
                  ELSE /\ pcOut' = "done"
                       /\ UNCHANGED <<toTwilio, n_delta>>
          ELSE /\ pcOut' = "recv"
               /\ n_delta' = n_delta + 1
               /\ UNCHANGED toTwilio
    /\ UNCHANGED <<stream_sid, latest_media_timestamp, mark_queue, openai_open,
                   twilio_open, pcIn, pcMain, data, oa, toAI, nIn, nOut, n_ack>>

\* After the mark frame was sent: mark_queue.append(mark_name) (main.py:223).
OutMarkResume ==
    /\ pcOut = "mark_sent"
    /\ mark_queue' = Append(mark_queue, "responsePart")
    /\ pcOut' = "recv"
    /\ n_delta' = n_delta + 1
    /\ UNCHANGED <<stream_sid, latest_media_timestamp, last_assistant_item,
                   response_start_timestamp_twilio, openai_open, twilio_open,
                   pcIn, pcMain, data, oa, toAI, toTwilio, nIn, nOut,
                   resp_item, resp_first_ts, n_ack>>

\* The speech_started branch taken whatever last_assistant_item is.
SpeechGuard_Always == TRUE

\* The guard of the speech_started branch (main.py:177).
SpeechGuard == last_assistant_item # None

\* The guard of handle_interrupt (main.py:189).
InterruptGuard ==
    mark_queue # << >> /\ response_start_timestamp_twilio # NoTs

\* main.py:190.
ElapsedMs == latest_media_timestamp - response_start_timestamp_twilio

\* The truncate message of main.py:195-202.
TruncateMessage ==
    AIMsg("conversation.item.truncate", last_assistant_item, 0, ElapsedMs)

\* `oa_type == "input_audio_buffer.speech_started" and last_assistant_item`
\* and handle_interrupt up to its first await (main.py:177-203).
OutSpeech ==
    /\ OutCanReceive
    /\ oa' = OaEvent("input_audio_buffer.speech_started", None, 0)
    /\ nOut' = nOut + 1
    /\ IF SpeechGuard /\ InterruptGuard
          THEN /\ toAI' = Append(toAI, TruncateMessage)
               /\ pcOut' = "truncate_sent"
          ELSE UNCHANGED <<toAI, pcOut>>
    /\ UNCHANGED <<progVars, openai_open, twilio_open, pcIn, pcMain, data,
                   toTwilio, nIn, histVars>>

\* The clear frame of main.py:206.
ClearFrame == TwilioFrame("clear", stream_sid, 0)

\* handle_interrupt after the truncate message was sent (main.py:206).
OutTruncateResume ==
    /\ pcOut = "truncate_sent"
    /\ IF twilio_open
          THEN /\ toTwilio' = Append(toTwilio, ClearFrame)
               /\ pcOut' = "clear_sent"
          ELSE /\ pcOut' = "done"
               /\ UNCHANGED toTwilio
    /\ UNCHANGED <<progVars, openai_open, twilio_open, pcIn, pcMain, data, oa,
                   toAI, nIn, nOut, histVars>>

\* A reset that forgets last_assistant_item.
InterruptReset_KeepItem ==
    /\ mark_queue' = << >>
    /\ response_start_timestamp_twilio' = NoTs
    /\ UNCHANGED last_assistant_item

\* main.py:209-211, three assignments with no await between them.
InterruptReset ==
    /\ mark_queue' = << >>
    /\ last_assistant_item' = None
    /\ response_start_timestamp_twilio' = NoTs

\* handle_interrupt after the clear frame was sent (main.py:208-211).
OutClearResume ==
    /\ pcOut = "clear_sent"
    /\ InterruptReset
    /\ pcOut' = "recv"
    /\ resp_item' = None
    /\ resp_first_ts' = NoTs
    /\ n_delta' = 0
    /\ n_ack' = 0
    /\ UNCHANGED <<stream_sid, latest_media_timestamp, openai_open,
                   twilio_open, pcIn, pcMain, data, oa, toAI, toTwilio, nIn,
                   nOut>>

\* `type == "error"`: no branch of main.py:154-179 matches, the loop goes on.
OutError ==
    /\ OutCanReceive
    /\ oa' = OaEvent("error", None, 0)
    /\ nOut' = nOut + 1
    /\ UNCHANGED <<progVars, openai_open, twilio_open, pcIn, pcOut, pcMain,
                   data, toAI, toTwilio, nIn, histVars>>

\* Where the outbound pump is after json.loads raised (main.py:151): the
\* exception is caught outside the loop (main.py:183-184).
OutAfterBadJson == "done"

\* An unparseable frame of the AI channel: json.loads(oa_raw) raises.
OutMalformed ==
    /\ OutCanReceive
    /\ oa' = OaEvent("malformed", None, 0)
    /\ nOut' = nOut + 1
    /\ pcOut' = OutAfterBadJson
    /\ UNCHANGED <<progVars, openai_open, twilio_open, pcIn, pcMain, data,
                   toAI, toTwilio, nIn, histVars>>

\* The AI channel is closed: the iteration of main.py:150 ends, or raises
\* ConnectionClosed into main.py:181-182.
OutClosed ==
    /\ pcOut = "recv"
    /\ ~openai_open
    /\ pcOut' = "done"
    /\ UNCHANGED <<progVars, openai_open, twilio_open, pcIn, pcMain, data, oa,
                   toAI, toTwilio, nIn, nOut, histVars>>

send_to_twilio ==
    \/ \E i \in ItemIds \cup {None} : OutDelta(i)
    \/ OutDeltaResume
    \/ OutMarkResume
    \/ OutSpeech
    \/ OutTruncateResume
    \/ OutClearResume
    \/ OutError
    \/ OutMalformed
    \/ OutClosed

\* ------------------------------------------- the two peers and the session
\* The caller's side drops the telephony websocket.
TwilioDisconnect ==
    /\ pcMain = "gather"
    /\ twilio_open
    /\ twilio_open' = FALSE
    /\ UNCHANGED <<progVars, openai_open, pcIn, pcOut, pcMain, data, oa, toAI,
                   toTwilio, nIn, nOut, histVars>>

\* The AI service closes its websocket.
OpenAIClose ==
    /\ pcMain = "gather"
    /\ openai_open
    /\ openai_open' = FALSE
    /\ UNCHANGED <<progVars, twilio_open, pcIn, pcOut, pcMain, data, oa, toAI,
                   toTwilio, nIn, nOut, histVars>>

\* asyncio.gather returns once both coroutines have returned, or raises as
\* soon as one of them raised (main.py:226); it cancels neither.
GatherOver == (pcIn = "done" /\ pcOut = "done") \/ pcIn = "raised"

\* handle_media_stream leaves `async with` (main.py:97-226): openai_ws is
\* closed, and the endpoint's return closes the telephony websocket.
SessionEnd ==
    /\ pcMain = "gather"
    /\ GatherOver
    /\ pcMain' = "ended"
    /\ openai_open' = FALSE
    /\ twilio_open' = FALSE
    /\ UNCHANGED <<progVars, pcIn, pcOut, data, oa, toAI, toTwilio, nIn, nOut,
                   histVars>>

Next ==
    \/ receive_from_twilio
    \/ send_to_twilio
    \/ TwilioDisconnect
    \/ OpenAIClose
    \/ SessionEnd

Spec == Init /\ [][Next]_vars

\* ================================================================ claims
\* The step in which the outbound pump receives an AI event of type `type`.
OutHandles(type) == nOut' = nOut + 1 /\ oa'.type = type

\* The step in which the inbound pump receives a telephony event `event`.
InHandles(event) == nIn' = nIn + 1 /\ data'.event = event

IsTruncateFor(m, item) ==
    m.type = "conversation.item.truncate" /\ m.item_id = item

Max0(n) == IF n < 0 THEN 0 ELSE n

\* C1: a speech-started event handled while last_assistant_item is non-null
\* sends one truncate message for that item to the AI channel and then one
\* clear frame to the telephony leg, however many marks were acknowledged.
\* Stated for a started stream (stream_sid set), where every delta sent a mark.
C1_InterruptSendsTruncateAndClear ==
    [][ /\ (OutHandles("input_audio_buffer.speech_started")
              /\ last_assistant_item # None /\ stream_sid # None)
            => /\ Len(toAI') = Len(toAI) + 1
               /\ IsTruncateFor(toAI'[Len(toAI')], last_assistant_item)
               /\ pcOut' = "truncate_sent"
        /\ (pcOut = "truncate_sent" /\ pcOut' # pcOut /\ twilio_open)
            => /\ Len(toTwilio') = Len(toTwilio) + 1
               /\ toTwilio'[Len(toTwilio')].event = "clear"
      ]_vars

\* C2: every truncate message carries audio_end_ms = latest_media_timestamp
\* at the interruption minus latest_media_timestamp at the first audio-delta
\* of the response being interrupted, clamped at zero.
C2_TruncateOffsetFromCurrentResponse ==
    [][ (Len(toAI') = Len(toAI) + 1
           /\ toAI'[Len(toAI')].type = "conversation.item.truncate")
        => toAI'[Len(toAI')].audio_end_ms =
              Max0(latest_media_timestamp - resp_first_ts)
      ]_vars

\* The outbound pump is back at its receive after an interruption (a
\* speech-started event received on a started stream while
\* last_assistant_item was non-null).
InterruptionHandled ==
    /\ pcOut' = "recv"
    /\ \/ (OutHandles("input_audio_buffer.speech_started")
             /\ last_assistant_item # None /\ stream_sid # None)
       \/ pcOut = "clear_sent"

\* C3: an interruption clears pending_playback_marks, last_assistant_item
\* and response_start_timestamp in one step, and once it is handled all
\* three are empty/None.
C3_InterruptionResetsAllThree ==
    [][ /\ InterruptionHandled
            => /\ mark_queue' = << >>
               /\ last_assistant_item' = None
               /\ response_start_timestamp_twilio' = NoTs
        /\ (UNCHANGED nIn
              /\ \/ (mark_queue # << >> /\ mark_queue' = << >>)
                 \/ (last_assistant_item # None /\ last_assistant_item' = None)
                 \/ (response_start_timestamp_twilio # NoTs
                       /\ response_start_timestamp_twilio' = NoTs))
            => /\ mark_queue' = << >>
               /\ last_assistant_item' = None
               /\ response_start_timestamp_twilio' = NoTs
      ]_vars

\* C4: a speech-started event handled while last_assistant_item is null
\* sends nothing on either socket and leaves mark_queue, last_assistant_item,
\* response_start_timestamp, stream_sid and latest_media_timestamp unchanged.
C4_SpeechStartedWhileIdleIsNoOp ==
    [][ (OutHandles("input_audio_buffer.speech_started")
           /\ last_assistant_item = None)
        => /\ toAI' = toAI
           /\ toTwilio' = toTwilio
           /\ UNCHANGED progVars
           /\ pcOut' = "recv"
      ]_vars

NoTruncateSent ==
    \A k \in 1..Len(toAI) : toAI[k].type # "conversation.item.truncate"

\* A speech-started event was handled with last_assistant_item null while
\* marks were pending and a response start was recorded (a delta without an
\* item id was played), and nothing was sent.
C4_Witness ==
    /\ oa.type = "input_audio_buffer.speech_started"
    /\ pcOut = "recv"
    /\ last_assistant_item = None
    /\ mark_queue # << >>
    /\ response_start_timestamp_twilio # NoTs
    /\ NoTruncateSent

\* C5: no frame is sent to the telephony leg with a null stream identifier.
C5_NoFrameWithNullStreamId ==
    \A k \in 1..Len(toTwilio) : toTwilio[k].streamSid # None

\* C6: after N audio-deltas handled and M <= N mark acks handled, with no
\* interruption in between, pending_playback_marks has length N - M.
C6_QueueLengthIsDeltasMinusAcks ==
    (pcOut = "recv" /\ n_ack <= n_delta)
        => Len(mark_queue) = n_delta - n_ack

\* C7: once the outbound pump has terminated, the inbound pump is cancelled:
\* it handles no further telephony event.
C7_SiblingStopsWithOutboundPump ==
    [][ pcOut = "done" => nIn' = nIn ]_vars

\* C8: media frames reach the telephony leg in the order their deltas
\* arrived, and each is followed by its own mark frame before the next
\* media frame.
C8_MediaInOrderEachFollowedByMark ==
    pcOut = "recv" =>
        /\ \A k \in 1..Len(toTwilio) :
              toTwilio[k].event = "media"
                 => /\ k < Len(toTwilio)
                    /\ toTwilio[k + 1].event = "mark"
        /\ \A j, k \in 1..Len(toTwilio) :
              (j < k /\ toTwilio[j].event = "media"
                     /\ toTwilio[k].event = "media")
                 => toTwilio[j].payload < toTwilio[k].payload

\* C9: a media or mark event received before the start event is dropped:
\* nothing is sent to the AI channel, the session state is unchanged and the
\* inbound pump keeps running.
C9_EventBeforeStartIsDropped ==
    [][ ((InHandles("media") \/ InHandles("mark")) /\ stream_sid = None)
        => /\ toAI' = toAI
           /\ UNCHANGED progVars
           /\ pcIn' = "recv"
      ]_vars

\* C10: a malformed event on either socket drops that frame only: the
\* session state is unchanged and the pump that received it keeps running.
C10_MalformedEventIsRecoverable ==
    [][ /\ InHandles("malformed")
            => (pcIn' = "recv" /\ UNCHANGED progVars)
        /\ OutHandles("malformed")
            => (pcOut' = "recv" /\ UNCHANGED progVars)
      ]_vars
\* C11: an event of type error from the AI channel is fatal: the outbound
\* pump terminates on it and relays no later AI event.
C11_ErrorEventEndsOutboundPump ==
    [][ /\ OutHandles("error") => pcOut' = "done"
        /\ oa.type = "error" => nOut' = nOut
      ]_vars

\* C12: a stop event from the telephony leg ends the inbound pump: after it
\* the pump handles no further telephony event and forwards no more audio.
C12_StopEndsInboundPump ==
    [][ /\ InHandles("stop") => pcIn' = "done"
        /\ data.event = "stop" => (nIn' = nIn /\ toAI' = toAI)
      ]_vars

\* C13: stream_sid is set at most once per session: the first start event
\* sets it and a later start event leaves it unchanged.
C13_FirstStartWins ==
    [][ stream_sid # None => stream_sid' = stream_sid ]_vars

\* C14: latest_media_timestamp is monotonically non-decreasing: no step of
\* either pump lowers it.
C14_LatestMediaTimestampMonotone ==
    [][ latest_media_timestamp' >= latest_media_timestamp ]_vars
\* The positions of the greeting trigger (response.create) in the messages
\* sent on the AI channel.
GreetingPositions == {k \in 1..Len(toAI) : toAI[k].type = "response.create"}

\* C15 as claimed: the greeting trigger is not sent before a media event has
\* been received, and is sent exactly once, by the first media event.
C15_GreetingOnFirstMedia ==
    /\ nIn = 0 => GreetingPositions = {}
    /\ Cardinality(GreetingPositions) <= 1

\* C15 as the code has it: the greeting trigger is sent exactly once per
\* session, at session setup before either pump runs (it is the third
\* message on the AI channel), and no media event sends it again.
C15_GreetingOnceAtSetup ==
    GreetingPositions = {Len(InitialMessages)}

\* Two media events have been forwarded and the greeting is still the one
\* sent at setup.
C15_Witness ==
    /\ Cardinality({k \in 1..Len(toAI) :
                      toAI[k].type = "input_audio_buffer.append"}) >= 2
    /\ data.event = "media"
    /\ GreetingPositions = {Len(InitialMessages)}
\* The inbound pump forwarded the media event it has just received.
MediaForwarded ==
    InHandles("media") /\ Len(toAI') = Len(toAI) + 1

\* The outbound pump relayed the audio-delta it has just received.
DeltaRelayed ==
    OutHandles("response.audio.delta") /\ Len(toTwilio') = Len(toTwilio) + 1

DeltaInFlight == pcOut \in {"delta_sent", "mark_sent"}

\* C17: while an audio-delta is in flight no interruption takes place: no
\* truncate message and no clear frame is sent, and the outbound pump clears
\* none of the three turn-taking fields.
C17_NoInterruptionDuringDelta ==
    [][ DeltaInFlight
          => /\ ~(Len(toAI') > Len(toAI)
                    /\ toAI'[Len(toAI')].type = "conversation.item.truncate")
             /\ ~(Len(toTwilio') > Len(toTwilio)
                    /\ toTwilio'[Len(toTwilio')].event = "clear")
             /\ UNCHANGED nIn
                  => /\ Len(mark_queue') >= Len(mark_queue)
                     /\ (last_assistant_item # None
                           => last_assistant_item' # None)
                     /\ (response_start_timestamp_twilio # NoTs
                           => response_start_timestamp_twilio' # NoTs)
      ]_vars

\* An audio-delta is in flight (its mark frame is sent, its mark not yet
\* appended) in a state in which a speech-started event would interrupt.
C17_Witness ==
    /\ pcOut = "mark_sent"
    /\ SpeechGuard
    /\ InterruptGuard

\* C18: last_assistant_item non-null implies response_start_timestamp
\* non-null, in every state; every truncate message sent names an item.
C18_ItemImpliesResponseStart ==
    /\ last_assistant_item # None => response_start_timestamp_twilio # NoTs
    /\ \A k \in 1..Len(toAI) :
          toAI[k].type = "conversation.item.truncate"
             => (toAI[k].item_id # None /\ toAI[k].audio_end_ms <= MaxTs)

\* A response was interrupted (a truncate message was sent, the fields were
\* reset) and a delta of the next response has set both fields again.
C18_Witness ==
    /\ ~NoTruncateSent
    /\ oa.type = "response.audio.delta"
    /\ pcOut = "recv"
    /\ last_assistant_item # None
    /\ response_start_timestamp_twilio # NoTs

\* C19: a non-empty mark queue implies stream_sid is set; every mark frame
\* and every clear frame carries a non-null streamSid; an audio-delta
\* handled before start queues no mark.
C19_MarksOnlyWithStreamId ==
    /\ (mark_queue # << >> \/ pcOut = "mark_sent") => stream_sid # None
    /\ \A k \in 1..Len(toTwilio) :
          toTwilio[k].event \in {"mark", "clear"}
             => toTwilio[k].streamSid # None

\* An audio-delta was relayed before start and sent no mark (the next frame
\* is the media frame of the following delta), and after start a later
\* delta queued a mark and was interrupted.
C19_Witness ==
    /\ Len(toTwilio) >= 2
    /\ toTwilio[1].event = "media" /\ toTwilio[1].streamSid = None
    /\ toTwilio[2].event = "media" /\ toTwilio[2].streamSid # None
    /\ \E k \in 1..Len(toTwilio) : toTwilio[k].event = "clear"

\* A message on the AI channel is an append message.
IsAppend(m) == m.type = "input_audio_buffer.append"

\* C20: a media event received while the AI channel is open sends exactly
\* one append message, after those of the earlier media events; one received
\* after the AI channel has closed sends nothing, leaves
\* latest_media_timestamp unchanged and does not end the inbound pump.
C20_OneAppendPerMediaWhileOpen ==
    [][ InHandles("media")
          => IF openai_open
                THEN /\ Len(toAI') = Len(toAI) + 1
                     /\ SubSeq(toAI', 1, Len(toAI)) = toAI
                     /\ IsAppend(toAI'[Len(toAI')])
                     /\ \A k \in 1..Len(toAI) :
                           IsAppend(toAI[k])
                              => toAI[k].audio < toAI'[Len(toAI')].audio
                     /\ pcIn' = "recv"
                ELSE /\ toAI' = toAI
                     /\ latest_media_timestamp' = latest_media_timestamp
                     /\ pcIn' = "recv"
      ]_vars

\* A media event was forwarded while the AI channel was open, and a later
\* one, received after the channel had closed, was not.
C20_Witness ==
    /\ data.event = "media"
    /\ ~openai_open
    /\ pcIn = "recv"
    /\ \E k \in 1..Len(toAI) : IsAppend(toAI[k])
    /\ \A k \in 1..Len(toAI) : IsAppend(toAI[k]) => toAI[k].audio < data.payload
====
